---- MODULE Spec2Model ----
(***************************************************************************)
(* A model of farrow's runtime schema engine (src/src/core/schema.ts) and  *)
(* of the child-process handling of its server bundler                     *)
(* (src/packages/farrow/src/bundler/server.ts).                            *)
(*                                                                         *)
(* JavaScript values are records of one shape, so that any two of them can *)
(* be compared.  A JavaScript string is the sequence of its characters; a  *)
(* message built by a template literal is the concatenation of the pieces  *)
(* of the template, the fixed text of the template being one piece.        *)
(***************************************************************************)
EXTENDS Integers, Sequences, FiniteSets

VARIABLES
    store,          \* the descriptors built so far and the symbol counter
    last,           \* the call of the schema API that has just returned
    childProcess,   \* server.ts: the tracked child (0 is null)
    children,       \* server.ts: every child spawned so far, "running" or "cancelled"
    isStarted,      \* server.ts: start() has been entered
    hasBuilt,       \* server.ts: bundler.build() has been entered
    hasWatcher,     \* server.ts: getWatcher() has been entered
    watcher,        \* server.ts: "none", "starting", "ready" or "closed"
    tasks           \* server.ts: the pending async calls, each at one of its awaits

schemaVars == <<store, last>>
serverVars == <<childProcess, children, isStarted, hasBuilt, hasWatcher, watcher, tasks>>
vars == <<store, last, childProcess, children, isStarted, hasBuilt, hasWatcher, watcher, tasks>>

----------------------------------------------------------------------------
(* JavaScript values *)

Val(t, n, s, ks, xs) == [t |-> t, n |-> n, s |-> s, ks |-> ks, xs |-> xs]
Undefined == Val("undefined", 0, <<>>, <<>>, <<>>)
Null == Val("null", 0, <<>>, <<>>, <<>>)
SymbolValue == Val("symbol", 0, <<>>, <<>>, <<>>)
Num(n) == Val("number", n, <<>>, <<>>, <<>>)
Str(s) == Val("string", 0, s, <<>>, <<>>)
Bool(b) == Val("boolean", IF b THEN 1 ELSE 0, <<>>, <<>>, <<>>)
Arr(xs) == Val("array", 0, <<>>, <<>>, xs)
Obj(ks, xs) == Val("object", 0, <<>>, ks, xs)

typeof(v) == IF v.t \in {"null", "array", "object"} THEN "object" ELSE v.t

\* source[key]: the value under key, undefined when the object has no such key
Get(obj, key) ==
    IF \E i \in 1..Len(obj.ks) : obj.ks[i] = key
    THEN obj.xs[CHOOSE i \in 1..Len(obj.ks) : obj.ks[i] = key]
    ELSE Undefined

Digits == <<"0", "1", "2", "3", "4", "5", "6", "7", "8", "9">>
IsDigit(c) == \E d \in 1..10 : Digits[d] = c
DigitVal(c) == (CHOOSE d \in 1..10 : Digits[d] = c) - 1

\* Number.prototype.toString of a non-negative integer
RECURSIVE NumberToString(_)
NumberToString(n) ==
    IF n < 10 THEN <<Digits[n + 1]>>
    ELSE Append(NumberToString(n \div 10), Digits[(n % 10) + 1])

\* Number(s) of a string: the empty string is 0, decimal digits their value,
\* anything else NaN
RECURSIVE DigitsValue(_, _)
DigitsValue(s, acc) ==
    IF s = <<>> THEN acc ELSE DigitsValue(Tail(s), acc * 10 + DigitVal(Head(s)))

Number(s) ==
    IF \A i \in 1..Len(s) : IsDigit(s[i])
    THEN [nan |-> FALSE, n |-> DigitsValue(s, 0)]
    ELSE [nan |-> TRUE, n |-> 0]

\* a.join(sep) of a sequence of strings
RECURSIVE Join(_, _)
Join(list, sep) ==
    IF list = <<>> THEN <<>>
    ELSE IF Len(list) = 1 THEN list[1]
    ELSE list[1] \o sep \o Join(Tail(list), sep)

\* ToString, the conversion a template literal `${v}` applies: it throws a
\* TypeError on a symbol (ok is FALSE), also on one inside an array
RECURSIVE ToString(_)
ToString(v) ==
    CASE v.t = "number" -> [ok |-> TRUE, s |-> NumberToString(v.n)]
      [] v.t = "string" -> [ok |-> TRUE, s |-> v.s]
      [] v.t = "boolean" ->
            [ok |-> TRUE, s |-> IF v.n = 1 THEN <<"t", "r", "u", "e">>
                                           ELSE <<"f", "a", "l", "s", "e">>]
      [] v.t = "null" -> [ok |-> TRUE, s |-> <<"n", "u", "l", "l">>]
      [] v.t = "undefined" ->
            [ok |-> TRUE, s |-> <<"u", "n", "d", "e", "f", "i", "n", "e", "d">>]
      [] v.t = "symbol" -> [ok |-> FALSE, s |-> <<>>]
      [] v.t = "array" ->
            LET part(x) == IF x.t \in {"null", "undefined"}
                           THEN [ok |-> TRUE, s |-> <<>>]
                           ELSE ToString(x)
                parts == [i \in 1..Len(v.xs) |-> part(v.xs[i])]
            IN  IF \A i \in 1..Len(parts) : parts[i].ok
                THEN [ok |-> TRUE,
                      s |-> Join([i \in 1..Len(parts) |-> parts[i].s], <<",">>)]
                ELSE [ok |-> FALSE, s |-> <<>>]
      [] OTHER -> [ok |-> TRUE, s |-> <<"[object Object]">>]

----------------------------------------------------------------------------
(* Result *)

Ok(value) == [kind |-> "Ok", value |-> value, msg |-> <<>>]
Err(msg) == [kind |-> "Err", value |-> Undefined, msg |-> msg]
\* a call that ends by throwing, named by the error it throws
Thrown(error) == [kind |-> "Throw", value |-> Undefined, msg |-> <<error>>]

\* Err(`${input}${text}`)
ErrOf(input, text) ==
    LET s == ToString(input)
    IN  IF s.ok THEN Err(s.s \o <<text>>) ELSE Thrown("TypeError")

NL == "\n"

----------------------------------------------------------------------------
(* Descriptors.  store.types is the heap of the descriptors built so far,  *)
(* a descriptor being named by its index; store.nsym counts the symbols    *)
(* minted, store.ndoc the schema documents allocated and store.ncalls the  *)
(* toJSON() calls made from outside.                                       *)
(*   kind     which options the descriptor was created with                *)
(*   symbol   the identity token of createType                             *)
(*   args     the descriptors the options close over                       *)
(*   keys     object: the declared field names, in declaration order       *)
(*   lit      literal: the literal value (a sequence of length 1)          *)
(*   pattern  Pattern: the pattern string                                  *)
(*   Type     thunk: the resolved descriptor, 0 while undefined            *)
(*   json     the cached document, <<>> while undefined                    *)
(*   fcalls   how often the thunk's factory f has run                      *)
(*   jcalls   how often options.toJSON has been entered                    *)
(*   first    the document the first toJSON() from outside returned        *)

Options(kind, args, keys, lit, pattern) ==
    [kind |-> kind, symbol |-> 0, args |-> args, keys |-> keys, lit |-> lit,
     pattern |-> pattern, Type |-> 0, json |-> <<>>, fcalls |-> 0, jcalls |-> 0,
     first |-> <<>>]

\* one symbol made when the module loads and shared by every descriptor
MintSymbolOnce(st, options) == 1

\* let symbol = Symbol('KIND'): a symbol no earlier call has returned
MintSymbol(st, options) == st.nsym + 1

\* createType(options): the new descriptor is the last of the heap
createType(st, options) ==
    [st EXCEPT !.types = Append(@, [options EXCEPT !.symbol = MintSymbol(st, options)]),
               !.nsym = @ + 1]

\* the descriptor the last createType returned
Newest(st) == Len(st.types)

list(st, ItemType) == createType(st, Options("list", <<ItemType>>, <<>>, <<>>, <<>>))
object(st, keys, fields) == createType(st, Options("object", fields, keys, <<>>, <<>>))
nullable(st, Type) == createType(st, Options("nullable", <<Type>>, <<>>, <<>>, <<>>))
union(st, Types) == createType(st, Options("union", Types, <<>>, <<>>, <<>>))
literal(st, value) == createType(st, Options("literal", <<>>, <<>>, <<value>>, <<>>))
record(st, Type) == createType(st, Options("record", <<Type>>, <<>>, <<>>, <<>>))
\* thunk(f): f is "Json" for the factory of Json, "ref" for () => args[1]
thunk(st, f, args) == createType(st, Options(f, args, <<>>, <<>>, <<>>))
\* base.pipe(options): "Pattern" for the options Pattern passes, "pipeTo" for
\* options whose validate and toJSON are those of the descriptor args[2]
pipe(st, kind, base, Type, pattern) ==
    createType(st, Options(kind, <<base, Type>>, <<>>, <<>>, pattern))

IsThunk(T) == T.kind \in {"Json", "ref"}
IsPipe(T) == T.kind \in {"Pattern", "pipeTo"}

\* the module's own descriptors, in the order the module creates them
NumberT == 1
StringT == 2
BooleanT == 3
JsonT == 4
AnyT == 5

EmptyStore == [types |-> <<>>, nsym |-> 0, ndoc |-> 0, ncalls |-> 0]

Exports ==
    LET s1 == createType(EmptyStore, Options("number", <<>>, <<>>, <<>>, <<>>))
        s2 == createType(s1, Options("string", <<>>, <<>>, <<>>, <<>>))
        s3 == createType(s2, Options("boolean", <<>>, <<>>, <<>>, <<>>))
        s4 == thunk(s3, "Json", <<>>)
    IN  createType(s4, Options("any", <<>>, <<>>, <<>>, <<>>))

\* Pattern(pattern, ParamsType) == string.pipe({...})
Pattern(st, pattern, ParamsType) == pipe(st, "Pattern", StringT, ParamsType, pattern)

----------------------------------------------------------------------------
(* path-to-regexp's match(pattern), with its default options: the path is  *)
(* the pattern's segments, a ":name" segment standing for any non-empty    *)
(* segment, followed by at most one trailing delimiter.                    *)

\* the segments of a path that starts with "/", split at every "/"
RECURSIVE Segments(_, _, _)
Segments(s, cur, acc) ==
    IF s = <<>> THEN Append(acc, cur)
    ELSE IF Head(s) = "/" THEN Segments(Tail(s), <<>>, Append(acc, cur))
    ELSE Segments(Tail(s), Append(cur, Head(s)), acc)

SplitPath(s) == Tail(Segments(s, <<>>, <<>>))

IsParam(seg) == seg # <<>> /\ Head(seg) = ":"

\* [matched, params]: params maps each name to the segment it matched
match(pattern, path) ==
    LET stripped == IF Len(path) > 1 /\ path[Len(path)] = "/"
                    THEN SubSeq(path, 1, Len(path) - 1) ELSE path
        ps == SplitPath(pattern)
        xs == SplitPath(stripped)
        fits == /\ stripped # <<>>
                /\ Head(stripped) = "/"
                /\ Len(xs) = Len(ps)
                /\ \A i \in 1..Len(ps) :
                      IF IsParam(ps[i]) THEN xs[i] # <<>> ELSE xs[i] = ps[i]
        named == SelectSeq([i \in 1..Len(ps) |-> i], LAMBDA i : IsParam(ps[i]))
    IN  IF fits
        THEN [matched |-> TRUE,
              params |-> Obj([k \in 1..Len(named) |-> Tail(ps[named[k]])],
                             [k \in 1..Len(named) |-> Str(xs[named[k]])])]
        ELSE [matched |-> FALSE, params |-> Undefined]

----------------------------------------------------------------------------
(* validate.  A call returns its Result r, the store it leaves (a thunk    *)
(* resolves on first use) and tr, the calls it made in the order it made   *)
(* them: validate calls of descriptors, and "next" calls of a pipe's       *)
(* options.validate, each with its depth below the outermost call, its     *)
(* input and its outcome.                                                  *)

Out(r, st, tr) == [r |-> r, st |-> st, tr |-> tr]
Ev(fn, d, t, in, out) == [fn |-> fn, d |-> d, t |-> t, in |-> in, out |-> out]

numberCoerces(input) == input = Str(<<"s", "t", "r", "i", "n", "g">>)

numberValidate(input) ==
    LET n == Number(input.s)
        coerced == IF numberCoerces(input) /\ ~n.nan THEN Num(n.n) ELSE input
    IN  IF typeof(coerced) = "number" THEN Ok(coerced)
        ELSE ErrOf(coerced, " is not a number")

stringValidate(input) ==
    IF typeof(input) = "string" THEN Ok(input) ELSE ErrOf(input, " is not a string")

booleanValidate(input) ==
    LET coerced == IF input = Str(<<"t", "r", "u", "e">>) THEN Bool(TRUE)
                   ELSE IF input = Str(<<"f", "a", "l", "s", "e">>) THEN Bool(FALSE)
                   ELSE input
    IN  IF typeof(coerced) = "boolean" THEN Ok(coerced)
        ELSE ErrOf(coerced, " is not a boolean")

literalValidate(lit, input) ==
    IF input = lit THEN Ok(lit)
    ELSE LET a == ToString(input)
             b == ToString(lit)
         IN  IF a.ok /\ b.ok THEN Err(a.s \o <<" is not equal to ">> \o b.s)
             ELSE Thrown("TypeError")

anyValidate(input) == Ok(input)

\* the descriptors f() creates and the one it returns, for the factory of Json:
\* union(number, string, boolean, literal(null), list(Json), record(Json))
JsonFactory(st, Json) ==
    LET s1 == literal(st, Null)
        s2 == list(s1, Json)
        s3 == record(s2, Json)
    IN  union(s3, <<NumberT, StringT, BooleanT, Newest(s1), Newest(s2), Newest(s3)>>)

\* getType() without its cache
AlwaysUnresolved(T) == TRUE

\* whether getType() has to run f
Unresolved(T) == T.Type = 0

\* getType() of the thunk t: [st, Type]
getType(st, t) ==
    LET T == st.types[t]
    IN  IF Unresolved(T)
        THEN LET made == IF T.kind = "Json" THEN JsonFactory(st, t) ELSE st
                 Type == IF T.kind = "Json" THEN Newest(made) ELSE T.args[1]
             IN  [st |-> [made EXCEPT !.types[t].Type = Type,
                                      !.types[t].fcalls = @ + 1],
                  Type |-> Type]
        ELSE [st |-> st, Type |-> T.Type]

\* the alternatives, last first
unionOrderReversed(Types) == [i \in 1..Len(Types) |-> Types[Len(Types) + 1 - i]]

\* the alternatives union.validate goes through, in this order
unionOrder(Types) == Types

\* options.validate called on what pipe was given
pipeArgumentRaw(input, result) == input

\* the value pipe hands to options.validate
pipeArgument(input, result) == result.value

\* a loop that goes on after an Err
stopsOnThrow(result) == result.kind = "Throw"

\* `if (result.isErr) return result` of list, object and record; a call that
\* throws ends the loop as well
stops(result) == result.kind # "Ok"

\* `object` starting as a copy of the input: the undeclared keys stay
objectResultSpread(keys, values, source) ==
    LET extra == SelectSeq([i \in 1..Len(source.ks) |-> i],
                           LAMBDA i : \A k \in 1..Len(keys) : keys[k] # source.ks[i])
    IN  Obj(keys \o [i \in 1..Len(extra) |-> source.ks[extra[i]]],
            values \o [i \in 1..Len(extra) |-> source.xs[extra[i]]])

\* the value object.validate returns: `object`, filled field by field
objectResult(keys, values, source) == Obj(keys, values)

RECURSIVE validate(_, _, _, _)
RECURSIVE call(_, _, _, _)
RECURSIVE listLoop(_, _, _, _, _, _, _)
RECURSIVE objectLoop(_, _, _, _, _, _, _)
RECURSIVE recordLoop(_, _, _, _, _, _, _)
RECURSIVE unionLoop(_, _, _, _, _, _, _)

\* T.validate(input), called at depth d, with the call itself in the trace
call(st, t, input, d) ==
    LET o == validate(st, t, input, d)
    IN  Out(o.r, o.st, <<Ev("validate", d, t, input, o.r)>> \o o.tr)

listLoop(st, ItemType, xs, i, acc, tr, d) ==
    IF i > Len(xs) THEN Out(Ok(Arr(acc)), st, tr)
    ELSE LET o == call(st, ItemType, xs[i], d + 1)
         IN  IF stops(o.r) THEN Out(o.r, o.st, tr \o o.tr)
             ELSE listLoop(o.st, ItemType, xs, i + 1, Append(acc, o.r.value),
                           tr \o o.tr, d)

objectLoop(st, T, source, i, acc, tr, d) ==
    IF i > Len(T.keys) THEN Out(Ok(objectResult(T.keys, acc, source)), st, tr)
    ELSE LET o == call(st, T.args[i], Get(source, T.keys[i]), d + 1)
         IN  IF stops(o.r) THEN Out(o.r, o.st, tr \o o.tr)
             ELSE objectLoop(o.st, T, source, i + 1, Append(acc, o.r.value),
                             tr \o o.tr, d)

recordLoop(st, Type, source, i, acc, tr, d) ==
    IF i > Len(source.ks) THEN Out(Ok(Obj(source.ks, acc)), st, tr)
    ELSE LET o == call(st, Type, source.xs[i], d + 1)
         IN  IF stops(o.r) THEN Out(o.r, o.st, tr \o o.tr)
             ELSE recordLoop(o.st, Type, source, i + 1, Append(acc, o.r.value),
                             tr \o o.tr, d)

unionLoop(st, Types, input, i, msgs, tr, d) ==
    IF i > Len(Types)
    THEN LET s == ToString(input)
         IN  Out(IF s.ok
                 THEN Err(s.s \o <<" is not the union type, messages:", NL>>
                              \o Join(msgs, <<NL>>))
                 ELSE Thrown("TypeError"),
                 st, tr)
    ELSE LET o == call(st, Types[i], input, d + 1)
         IN  IF o.r.kind # "Err" THEN Out(o.r, o.st, tr \o o.tr)
             ELSE unionLoop(o.st, Types, input, i + 1, Append(msgs, o.r.msg),
                            tr \o o.tr, d)

validate(st, t, input, d) ==
    LET T == st.types[t]
    IN  CASE T.kind = "number" -> Out(numberValidate(input), st, <<>>)
          [] T.kind = "string" -> Out(stringValidate(input), st, <<>>)
          [] T.kind = "boolean" -> Out(booleanValidate(input), st, <<>>)
          [] T.kind = "any" -> Out(anyValidate(input), st, <<>>)
          [] T.kind = "literal" -> Out(literalValidate(T.lit[1], input), st, <<>>)
          [] T.kind = "list" ->
                IF input.t # "array" THEN Out(ErrOf(input, " is not a array"), st, <<>>)
                ELSE listLoop(st, T.args[1], input.xs, 1, <<>>, <<>>, d)
          [] T.kind = "object" ->
                IF typeof(input) # "object"
                THEN Out(ErrOf(input, " is not an object"), st, <<>>)
                ELSE IF input.t = "null"
                THEN Out(Err(<<"null is not an object">>), st, <<>>)
                ELSE IF input.t = "array"
                THEN Out(ErrOf(input, " is not an object"), st, <<>>)
                ELSE objectLoop(st, T, input, 1, <<>>, <<>>, d)
          [] T.kind = "record" ->
                IF typeof(input) # "object"
                THEN Out(ErrOf(input, " is not an object"), st, <<>>)
                ELSE IF input.t = "null"
                THEN Out(Err(<<"null is not an object">>), st, <<>>)
                ELSE IF input.t = "array"
                THEN Out(ErrOf(input, " is not an object"), st, <<>>)
                ELSE recordLoop(st, T.args[1], input, 1, <<>>, <<>>, d)
          [] T.kind = "nullable" ->
                IF input.t \in {"null", "undefined"} THEN Out(Ok(input), st, <<>>)
                ELSE LET o == call(st, T.args[1], input, d + 1)
                     IN  Out(o.r, o.st, o.tr)
          [] T.kind = "union" -> unionLoop(st, unionOrder(T.args), input, 1, <<>>, <<>>, d)
          [] IsThunk(T) ->
                LET g == getType(st, t)
                    o == call(g.st, g.Type, input, d + 1)
                IN  Out(o.r, o.st, o.tr)
          [] IsPipe(T) ->
                LET base == call(st, T.args[1], input, d + 1)
                IN  IF base.r.kind # "Ok" THEN Out(base.r, base.st, base.tr)
                    ELSE LET x == pipeArgument(input, base.r)
                             m == match(T.pattern, x.s)
                             inner == IF T.kind = "Pattern" /\ ~m.matched
                                      THEN Out(Err(x.s \o <<" is not matched the pattern: ">>
                                                       \o T.pattern),
                                               base.st, <<>>)
                                      ELSE call(base.st, T.args[2],
                                                IF T.kind = "Pattern" THEN m.params ELSE x,
                                                d + 2)
                         IN  Out(inner.r, inner.st,
                                 base.tr \o <<Ev("next", d + 1, t, x, inner.r)>>
                                         \o inner.tr)

----------------------------------------------------------------------------
(* toJSON.  A document is the string of a primitive (ref 0) or an object   *)
(* allocated by the call that builds it, named by ref: two documents are   *)
(* the same object exactly when their refs are equal.  A call deeper than  *)
(* MaxStack frames ends with the engine's RangeError.                      *)

MaxStack == 7

Doc(ref, type, sub, T) ==
    [ref |-> ref, type |-> type, sub |-> sub, keys |-> T.keys,
     pattern |-> T.pattern, lit |-> T.lit]
NoDoc == [ref |-> 0, type |-> "", sub |-> <<>>, keys |-> <<>>, pattern |-> <<>>, lit |-> <<>>]

JOut(thrown, doc, st) == [thrown |-> thrown, doc |-> doc, st |-> st]

\* the "type" of the document options.toJSON builds
TypeName(kind) ==
    CASE kind = "list" -> "List"
      [] kind = "object" -> "Object"
      [] kind = "nullable" -> "Nullable"
      [] kind = "union" -> "Union"
      [] kind = "literal" -> "Literal"
      [] kind = "record" -> "Record"
      [] kind = "Pattern" -> "Pattern"
      [] kind = "any" -> "Any"
      [] OTHER -> kind

\* the descriptors whose toJSON() the options' toJSON calls, in call order
Nested(T) == IF T.kind = "Pattern" THEN <<T.args[2]>> ELSE T.args

\* whether props.toJSON has to call options.toJSON
Uncached(T) == T.json = <<>>

RECURSIVE toJSON(_, _, _)
RECURSIVE nestedToJSON(_, _, _, _, _)

nestedToJSON(st, Types, i, acc, d) ==
    IF i > Len(Types) THEN [thrown |-> FALSE, docs |-> acc, st |-> st]
    ELSE LET o == toJSON(st, Types[i], d + 1)
         IN  IF o.thrown THEN [thrown |-> TRUE, docs |-> acc, st |-> o.st]
             ELSE nestedToJSON(o.st, Types, i + 1, Append(acc, o.doc), d)

\* options.toJSON() of the descriptor t
optionsToJSON(st, t, d) ==
    LET T == st.types[t]
    IN  CASE T.kind \in {"number", "string", "boolean"} -> JOut(FALSE, Doc(0, T.kind, <<>>, T), st)
          [] IsThunk(T) ->
                LET g == getType(st, t) IN toJSON(g.st, g.Type, d + 1)
          [] T.kind = "pipeTo" -> toJSON(st, T.args[2], d + 1)
          [] OTHER ->
                LET o == nestedToJSON(st, Nested(T), 1, <<>>, d)
                IN  IF o.thrown THEN JOut(TRUE, NoDoc, o.st)
                    ELSE JOut(FALSE, Doc(o.st.ndoc + 1, TypeName(T.kind), o.docs, T),
                              [o.st EXCEPT !.ndoc = @ + 1])

\* T.toJSON(), called at depth d
toJSON(st, t, d) ==
    IF d > MaxStack THEN JOut(TRUE, NoDoc, st)
    ELSE IF ~Uncached(st.types[t]) THEN JOut(FALSE, st.types[t].json[1], st)
    ELSE LET o == optionsToJSON([st EXCEPT !.types[t].jcalls = @ + 1], t, d)
         IN  IF o.thrown THEN o
             ELSE JOut(FALSE, o.doc, [o.st EXCEPT !.types[t].json = <<o.doc>>])

----------------------------------------------------------------------------
(* The descriptor as a function, is and assert *)

NoTerm == [kind |-> 0, value |-> Undefined]

\* schema(value): [r, term, st]; r is Ok when the Term is returned
schema(st, t, value) ==
    LET o == validate(st, t, value, 0)
    IN  IF o.r.kind = "Err" THEN [r |-> Thrown("Error"), term |-> NoTerm, st |-> o.st]
        ELSE IF o.r.kind = "Throw" THEN [r |-> o.r, term |-> NoTerm, st |-> o.st]
        ELSE [r |-> Ok(o.r.value),
              term |-> [kind |-> st.types[t].symbol, value |-> o.r.value],
              st |-> o.st]

is(st, t, term) == term.kind = st.types[t].symbol

assert(st, t, term) == IF ~is(st, t, term) THEN Thrown("Error") ELSE Ok(Undefined)

----------------------------------------------------------------------------
(* The calls of the schema API.  A call runs to its end in one step and    *)
(* leaves in `last` what was called and what came back; Return forgets it. *)
(* is and assert are applied to the Term a descriptor has just returned,   *)
(* `by` recording the descriptor that made it.                             *)

NoResult == [kind |-> "", value |-> Undefined, msg |-> <<>>]
Call(op, t, in, r, tr, term, by, doc, flag) ==
    [op |-> op, t |-> t, in |-> in, r |-> r, tr |-> tr, term |-> term, by |-> by,
     doc |-> doc, flag |-> flag]
NoCall == Call("none", 0, Undefined, NoResult, <<>>, NoTerm, 0, NoDoc, FALSE)

Chars(n) == NumberToString(n)
S_true == <<"t", "r", "u", "e">>
S_x == <<"x">>
S_string == <<"s", "t", "r", "i", "n", "g">>
S_items42 == <<"/", "i", "t", "e", "m", "s", "/", "4", "2">>
S_items42slash == <<"/", "i", "t", "e", "m", "s", "/", "4", "2", "/">>
S_itemsAbc == <<"/", "i", "t", "e", "m", "s", "/", "a">>
S_other == <<"/", "o", "t", "h", "e", "r">>
S_pattern == <<"/", "i", "t", "e", "m", "s", "/", ":", "i", "d">>
K_id == <<"i", "d">>
K_done == <<"d", "o", "n", "e">>
K_extra == <<"e", "x", "t", "r", "a">>

\* the inputs the calls are tried on
Inputs ==
    { Num(1), Num(3), Num(42), Str(Chars(42)), Str(S_x), Str(S_true), Str(S_string),
      Str(S_items42), Str(S_items42slash), Str(S_itemsAbc), Str(S_other),
      Bool(TRUE), Null, Undefined, SymbolValue,
      Arr(<<>>), Arr(<<Num(1), Num(2), Num(3)>>), Arr(<<Num(1), Str(S_x), Num(3)>>),
      Arr(<<Str(S_x), SymbolValue>>),
      Obj(<<>>, <<>>),
      Obj(<<K_id>>, <<Num(1)>>),
      Obj(<<K_id, K_extra>>, <<Num(1), Bool(TRUE)>>),
      Obj(<<K_extra, K_done, K_id>>, <<Num(3), Str(S_true), Num(42)>>),
      Obj(<<K_id, K_done>>, <<Str(Chars(42)), Num(1)>>),
      Obj(<<K_done, K_id>>, <<Bool(TRUE), Num(1)>>),
      Obj(<<K_id, K_done, K_extra>>, <<Num(1), Str(S_x), Num(3)>>) }

ValidateOp(t, input) ==
    /\ last.op = "none"
    /\ LET o == validate(store, t, input, 0)
       IN  /\ store' = o.st
           /\ last' = Call("validate", t, input, o.r, o.tr, NoTerm, 0, NoDoc, FALSE)

InvokeOp(t, value) ==
    /\ last.op = "none"
    /\ LET o == schema(store, t, value)
       IN  /\ store' = o.st
           /\ last' = Call("invoke", t, value, o.r, <<>>, o.term,
                           IF o.r.kind = "Ok" THEN t ELSE 0, NoDoc, FALSE)

HoldsTerm == last.op = "invoke" /\ last.term.kind # 0

IsOp(t) ==
    /\ HoldsTerm
    /\ last' = [last EXCEPT !.op = "is", !.t = t, !.r = Ok(Undefined),
                            !.flag = is(store, t, last.term)]
    /\ UNCHANGED store

AssertOp(t) ==
    /\ HoldsTerm
    /\ last' = [last EXCEPT !.op = "assert", !.t = t, !.r = assert(store, t, last.term),
                            !.flag = FALSE]
    /\ UNCHANGED store

MaxCalls == 3

ToJSONOp(t) ==
    /\ last.op = "none"
    /\ store.ncalls < MaxCalls
    /\ LET o == toJSON(store, t, 0)
       IN  /\ store' = [o.st EXCEPT !.ncalls = @ + 1,
                                    !.types[t].first =
                                        IF @ = <<>> /\ ~o.thrown THEN <<o.doc>> ELSE @]
           /\ last' = Call("toJSON", t, Undefined,
                           IF o.thrown THEN Thrown("RangeError") ELSE Ok(Undefined),
                           <<>>, NoTerm, 0, o.doc, FALSE)

Return ==
    /\ last.op # "none"
    /\ last' = NoCall
    /\ UNCHANGED store

TypeIds == 1..Len(store.types)

----------------------------------------------------------------------------
(* The server bundler is idle in the specifications of the schema engine.  *)

ServerInit ==
    /\ childProcess = 0
    /\ children = <<>>
    /\ isStarted = FALSE
    /\ hasBuilt = FALSE
    /\ hasWatcher = FALSE
    /\ watcher = "none"
    /\ tasks = <<>>

----------------------------------------------------------------------------
(* Spec: the calls of validate, of the descriptor as a function, of is and *)
(* of assert, on the module's descriptors and on descriptors built from    *)
(* them with every combinator.                                             *)

Fixture ==
    LET s6 == object(Exports, <<K_id>>, <<NumberT>>)
        s7 == Pattern(s6, S_pattern, Newest(s6))
        s8 == literal(s7, Num(1))
        s9 == literal(s8, Num(2))
        s10 == union(s9, <<Newest(s8), Newest(s9)>>)
        s11 == list(s10, NumberT)
        s12 == nullable(s11, NumberT)
        s13 == record(s12, NumberT)
        s14 == object(s13, <<K_id, K_done>>, <<NumberT, BooleanT>>)
        s15 == union(s14, <<BooleanT, StringT>>)
        s16 == pipe(s15, "pipeTo", BooleanT, AnyT, <<>>)
        s17 == pipe(s16, "pipeTo", BooleanT, NumberT, <<>>)
        s18 == list(s17, Newest(s14))
        s19 == object(s18, <<K_id, K_extra>>, <<NumberT, Newest(s12)>>)
    IN  thunk(s19, "ref", <<Newest(s11)>>)

Init ==
    /\ store = Fixture
    /\ last = NoCall
    /\ ServerInit

Next ==
    \/ \E t \in TypeIds, input \in Inputs : ValidateOp(t, input) /\ UNCHANGED serverVars
    \/ \E t \in TypeIds, value \in Inputs : InvokeOp(t, value) /\ UNCHANGED serverVars
    \/ \E t \in TypeIds : IsOp(t) /\ UNCHANGED serverVars
    \/ \E t \in TypeIds : AssertOp(t) /\ UNCHANGED serverVars
    \/ Return /\ UNCHANGED serverVars

Spec == Init /\ [][Next]_vars

----------------------------------------------------------------------------
(* BrandSpec: descriptors are created while the program runs, by object,   *)
(* by pipe and by Pattern, and Terms are made and checked in between.      *)

MaxTypes == 2

\* the descriptors created by the program, not by the module or by Json's factory
Created ==
    Len(store.types) - Len(Exports.types)
        - (IF Unresolved(store.types[JsonT]) THEN 0
           ELSE Len(JsonFactory(Exports, JsonT).types) - Len(Exports.types))

CreateObject(keys, fields) ==
    /\ Created < MaxTypes
    /\ store' = object(store, keys, fields)
    /\ UNCHANGED last

\* base.pipe(options), for a base that is number, an object or itself a pipe
CreatePipe(base, Type) ==
    /\ Created < MaxTypes
    /\ store.types[base].kind \in {"number", "object", "pipeTo"}
    /\ store' = pipe(store, "pipeTo", base, Type, <<>>)
    /\ UNCHANGED last

CreatePattern(pattern, ParamsType) ==
    /\ Created < MaxTypes
    /\ store.types[ParamsType].kind = "object"
    /\ store' = Pattern(store, pattern, ParamsType)
    /\ UNCHANGED last

BrandInputs == { Num(1), Obj(<<K_id>>, <<Num(1)>>) }

BrandInit ==
    /\ store = Exports
    /\ last = NoCall
    /\ ServerInit

BrandNext ==
    \/ CreateObject(<<K_id>>, <<NumberT>>) /\ UNCHANGED serverVars
    \/ \E base \in TypeIds : CreatePipe(base, AnyT) /\ UNCHANGED serverVars
    \/ \E p \in TypeIds : CreatePattern(S_pattern, p) /\ UNCHANGED serverVars
    \/ \E t \in TypeIds, value \in BrandInputs : InvokeOp(t, value) /\ UNCHANGED serverVars
    \/ \E t \in TypeIds : IsOp(t) /\ UNCHANGED serverVars
    \/ \E t \in TypeIds : AssertOp(t) /\ UNCHANGED serverVars
    \/ Return /\ UNCHANGED serverVars

BrandSpec == BrandInit /\ [][BrandNext]_vars

----------------------------------------------------------------------------
(* CacheSpec: toJSON() and validate calls on descriptors that share nested *)
(* descriptors, among them the thunks, in any order.                       *)

CacheFixture ==
    LET s6 == list(Exports, NumberT)
        s7 == thunk(s6, "ref", <<Newest(s6)>>)
        s8 == object(s7, <<K_id, K_done>>, <<Newest(s7), Newest(s6)>>)
    IN  literal(s8, Null)

CacheInputs == { Num(1), Arr(<<Num(1), Str(S_x), Num(3)>>), Arr(<<Arr(<<Num(1)>>)>>), SymbolValue }

CacheInit ==
    /\ store = CacheFixture
    /\ last = NoCall
    /\ ServerInit

CacheNext ==
    \/ \E t \in TypeIds : ToJSONOp(t) /\ UNCHANGED serverVars
    \/ \E t \in TypeIds, input \in CacheInputs :
          IsThunk(store.types[t]) /\ ValidateOp(t, input) /\ UNCHANGED serverVars
    \/ Return /\ UNCHANGED serverVars

CacheSpec == CacheInit /\ [][CacheNext]_vars

----------------------------------------------------------------------------
(* The server bundler.  Every call runs without interruption up to its     *)
(* next await; what it still has to do then waits in `tasks` and resumes   *)
(* in any order.  A child is named by its index in `children`.  The call   *)
(* that awaits a child (await run()) does nothing after it and is not kept.*)

MaxSpawn == 3
MaxTasks == 2

Server ==
    [childProcess |-> childProcess, children |-> children, isStarted |-> isStarted,
     hasBuilt |-> hasBuilt, hasWatcher |-> hasWatcher, watcher |-> watcher,
     tasks |-> tasks]

SetServer(S) ==
    /\ childProcess' = S.childProcess
    /\ children' = S.children
    /\ isStarted' = S.isStarted
    /\ hasBuilt' = S.hasBuilt
    /\ hasWatcher' = S.hasWatcher
    /\ watcher' = S.watcher
    /\ tasks' = S.tasks

Task(kind, pc, options) == [kind |-> kind, pc |-> pc, options |-> options]
NoOptions == [build |-> FALSE, watch |-> FALSE, run |-> FALSE]
StartOptions == [build : BOOLEAN, watch : BOOLEAN, run : BOOLEAN]

Without(seq, i) == SubSeq(seq, 1, i - 1) \o SubSeq(seq, i + 1, Len(seq))

\* stop(): cancel the tracked child, if any, and forget it
stop(S) ==
    IF S.childProcess # 0
    THEN [S EXCEPT !.children[S.childProcess] = "cancelled", !.childProcess = 0]
    ELSE S

\* run() that forgets to stop the tracked child
runWithoutStop(S) ==
    [S EXCEPT !.children = Append(@, "running"), !.childProcess = Len(S.children) + 1]

\* run(): stop(), then spawn a child and track it
run(S) ==
    LET s1 == stop(S)
    IN  [s1 EXCEPT !.children = Append(@, "running"),
                   !.childProcess = Len(s1.children) + 1]

\* build(), up to its await: createBundler's build sets hasBuilt
build(S) == [S EXCEPT !.hasBuilt = TRUE]

\* getWatcher(), memoized: the first call sets hasWatcher and starts watching
getWatcher(S) ==
    IF S.watcher = "none" THEN [S EXCEPT !.hasWatcher = TRUE, !.watcher = "starting"]
    ELSE S

\* dispose(), up to its first await
dispose(S) ==
    LET s1 == stop(S)
    IN  [s1 EXCEPT !.tasks = Append(@, Task("dispose", "bundler", NoOptions))]

\* start(), from `if (startConfig.run)` on
startRun(S, options) ==
    IF options.run THEN run(S)
    ELSE IF ~options.watch THEN dispose(S)
    ELSE S

\* start(), from `if (startConfig.watch)` on
startWatch(S, options) ==
    IF options.watch
    THEN [getWatcher(S) EXCEPT !.tasks = Append(@, Task("start", "watch", options))]
    ELSE startRun(S, options)

\* start(), from `if (startConfig.build)` on
startBuild(S, options) ==
    IF options.build
    THEN [build(S) EXCEPT !.tasks = Append(@, Task("start", "build", options))]
    ELSE startWatch(S, options)

Fits(S) == Len(S.children) <= MaxSpawn /\ Len(S.tasks) <= MaxTasks

\* start(startOptions)
Start(options) ==
    /\ ~isStarted
    /\ LET S == startBuild([Server EXCEPT !.isStarted = TRUE], options)
       IN  Fits(S) /\ SetServer(S)

\* run(), called from outside
Run ==
    LET S == run(Server) IN Fits(S) /\ SetServer(S)

\* build(), called from outside: nothing follows its await, and a later call
\* changes nothing
Build ==
    /\ ~hasBuilt
    /\ SetServer(build(Server))

\* watch(), called from outside: nothing follows its await
Watch ==
    /\ watcher = "none"
    /\ SetServer(getWatcher(Server))

\* dispose(), called from outside
Dispose ==
    LET S == dispose(Server) IN Fits(S) /\ SetServer(S)

\* chokidar's 'ready': watchFiles resolves and the 'all' handler is registered
WatcherReady ==
    /\ watcher = "starting"
    /\ SetServer([Server EXCEPT !.watcher = "ready"])

\* the 'all' handler, up to `await build()`
FileEvent ==
    /\ watcher = "ready"
    /\ LET S == [build(Server) EXCEPT !.tasks = Append(@, Task("rebuild", "build", NoOptions))]
       IN  Fits(S) /\ SetServer(S)

\* a build ends and the call awaiting it goes on
BuildDone(i) ==
    /\ i \in 1..Len(tasks)
    /\ tasks[i].pc = "build"
    /\ LET rest == [Server EXCEPT !.tasks = Without(tasks, i)]
           S == IF tasks[i].kind = "rebuild" THEN run(rest)
                ELSE startWatch(rest, tasks[i].options)
       IN  Fits(S) /\ SetServer(S)

\* a build fails: the handler logs the error, start() throws it
BuildFailed(i) ==
    /\ i \in 1..Len(tasks)
    /\ tasks[i].pc = "build"
    /\ SetServer([Server EXCEPT !.tasks = Without(tasks, i)])

\* start(): `await watch()` returns
WatchDone(i) ==
    /\ i \in 1..Len(tasks)
    /\ tasks[i].kind = "start" /\ tasks[i].pc = "watch"
    /\ watcher \in {"ready", "closed"}
    /\ LET S == startRun([Server EXCEPT !.tasks = Without(tasks, i)], tasks[i].options)
       IN  Fits(S) /\ SetServer(S)

\* dispose(): `await bundler.dispose()` returns
DisposeBundler(i) ==
    /\ i \in 1..Len(tasks)
    /\ tasks[i].kind = "dispose" /\ tasks[i].pc = "bundler"
    /\ SetServer(IF hasWatcher
                 THEN [Server EXCEPT !.tasks[i].pc = "watcher"]
                 ELSE [Server EXCEPT !.tasks = Without(tasks, i)])

\* dispose(): `await getWatcher()` returns and the watcher is closed
DisposeWatcher(i) ==
    /\ i \in 1..Len(tasks)
    /\ tasks[i].kind = "dispose" /\ tasks[i].pc = "watcher"
    /\ watcher \in {"ready", "closed"}
    /\ SetServer([Server EXCEPT !.tasks = Without(tasks, i), !.watcher = "closed"])

\* a child ends by itself
ChildExit(c) ==
    /\ c \in 1..Len(children)
    /\ children[c] = "running"
    /\ SetServer([Server EXCEPT !.children[c] = "exited"])

ServerStart ==
    /\ store = Exports
    /\ last = NoCall
    /\ ServerInit

ServerNext ==
    \/ \E options \in StartOptions : Start(options) /\ UNCHANGED schemaVars
    \/ Run /\ UNCHANGED schemaVars
    \/ Build /\ UNCHANGED schemaVars
    \/ Watch /\ UNCHANGED schemaVars
    \/ Dispose /\ UNCHANGED schemaVars
    \/ WatcherReady /\ UNCHANGED schemaVars
    \/ FileEvent /\ UNCHANGED schemaVars
    \/ \E i \in 1..MaxTasks : BuildDone(i) /\ UNCHANGED schemaVars
    \/ \E i \in 1..MaxTasks : BuildFailed(i) /\ UNCHANGED schemaVars
    \/ \E i \in 1..MaxTasks : WatchDone(i) /\ UNCHANGED schemaVars
    \/ \E i \in 1..MaxTasks : DisposeBundler(i) /\ UNCHANGED schemaVars
    \/ \E i \in 1..MaxTasks : DisposeWatcher(i) /\ UNCHANGED schemaVars
    \/ \E c \in 1..MaxSpawn : ChildExit(c) /\ UNCHANGED schemaVars

ServerSpec == ServerStart /\ [][ServerNext]_vars

----------------------------------------------------------------------------
(* The claims *)

LastT == store.types[last.t]
\* the calls the outermost call made itself, in order
Direct(tr) == SelectSeq(tr, LAMBDA e : e.d = 1)
Validated == last.op = "validate"

\* C1: a Term is recognized by the descriptor that made it and by no other
\* descriptor, whatever has been created or called before: is is true of the
\* maker alone, and assert throws for every descriptor but the maker.
C1_BrandPerDescriptor ==
    /\ last.term.kind # 0 =>
          \A t \in TypeIds : is(store, t, last.term) <=> (t = last.by)
    /\ last.op = "is" => (last.flag <=> (last.t = last.by))
    /\ last.op = "assert" => ((last.r.kind = "Throw") <=> (last.t # last.by))

\* two object({id: number}) built by separate calls; the Term of one was just
\* refused by the other
C1_Witness ==
    /\ last.op = "is"
    /\ last.t # last.by
    /\ ~last.flag
    /\ store.types[last.by].kind = "object"
    /\ LastT.kind = "object"
    /\ LastT.keys = store.types[last.by].keys
    /\ LastT.args = store.types[last.by].args

\* the factory has run at most once, and once when the thunk has been used
C2_FactoryAtMostOnce ==
    /\ \A t \in TypeIds :
          IsThunk(store.types[t]) =>
             /\ store.types[t].fcalls <= 1
             /\ (store.types[t].Type # 0) <=> (store.types[t].fcalls = 1)
    /\ (last.op \in {"validate", "toJSON"} /\ IsThunk(LastT)) => LastT.fcalls = 1

\* no step replaces the descriptor a thunk has resolved to
C2_ResolvedStays ==
    \A t \in TypeIds :
        (IsThunk(store.types[t]) /\ store.types[t].Type # 0) =>
            store'.types[t].Type = store.types[t].Type

\* C2: the factory of a thunk has run at most once, exactly once as soon as
\* validate or toJSON has been called on the thunk, and the descriptor it
\* returned stays the resolved one in every later call.
C2_ThunkResolvesOnce == [] C2_FactoryAtMostOnce /\ [][C2_ResolvedStays]_vars

\* Json has validated a list, calling itself for the elements, and its
\* factory has run once
C2_Witness ==
    /\ Validated
    /\ last.t = JsonT
    /\ last.in.t = "array"
    /\ last.r.kind = "Ok"
    /\ \E i \in 1..Len(last.tr) : last.tr[i].t = JsonT /\ last.tr[i].d > 1
    /\ LastT.fcalls = 1

\* C3: options.toJSON of a descriptor has been entered at most once, and a
\* toJSON() call returns the document the first call returned.
C3_SerializedOnce ==
    /\ \A t \in TypeIds : store.types[t].jcalls <= 1
    /\ last.op = "toJSON" =>
          (last.r.kind = "Ok" /\ LastT.first # <<>> /\ last.doc = LastT.first[1])

\* C4: a Pattern over an object of number fields turns a matching path into
\* the object of its parameters as numbers, and refuses a path that does not
\* match.
C4_PatternCoerces ==
    (/\ Validated
     /\ LastT.kind = "Pattern"
     /\ last.in.t = "string"
     /\ store.types[LastT.args[2]].kind = "object"
     /\ \A i \in 1..Len(store.types[LastT.args[2]].args) :
           store.types[LastT.args[2]].args[i] = NumberT) =>
        LET m == match(LastT.pattern, last.in.s)
        IN  IF ~m.matched THEN last.r.kind = "Err"
            ELSE (\A i \in 1..Len(m.params.xs) : ~Number(m.params.xs[i].s).nan) =>
                    /\ last.r.kind = "Ok"
                    /\ last.r.value =
                          Obj(m.params.ks,
                              [i \in 1..Len(m.params.xs) |->
                                   Num(Number(m.params.xs[i].s).n)])

\* C5: validate returns Ok or Err, and a call throws only when it is a
\* descriptor called as a function on an input its validate refuses with Err,
\* or assert on a Term of another descriptor.
C5_OnlyTwoThrow ==
    /\ Validated => last.r.kind \in {"Ok", "Err"}
    /\ last.r.kind = "Throw" =>
          \/ last.op = "invoke" /\ validate(store, last.t, last.in, 0).r.kind = "Err"
          \/ last.op = "assert" /\ ~is(store, last.t, last.term)

C7_UnionFirstSuccess ==
    (Validated /\ LastT.kind = "union") =>
        LET D == Direct(last.tr)
            n == Len(D)
            tail == Join([i \in 1..n |-> D[i].out.msg], <<NL>>)
        IN  /\ n <= Len(LastT.args)
            /\ \A i \in 1..n : D[i].fn = "validate" /\ D[i].t = LastT.args[i]
                               /\ D[i].in = last.in
            /\ \A i \in 1..(n - 1) : D[i].out.kind = "Err"
            /\ (n > 0 /\ D[n].out.kind = "Ok") => last.r = D[n].out
            /\ last.r.kind = "Ok" => (n > 0 /\ last.r = D[n].out)
            /\ last.r.kind = "Err" =>
                  /\ n = Len(LastT.args)
                  /\ \A i \in 1..n : D[i].out.kind = "Err"
                  /\ Len(last.r.msg) > Len(tail)
                  /\ last.r.msg[Len(last.r.msg) - Len(tail)] = NL
                  /\ SubSeq(last.r.msg, Len(last.r.msg) - Len(tail) + 1,
                            Len(last.r.msg)) = tail

\* union(boolean, string) on "true": boolean succeeds first and string is not
\* asked
C7_Witness ==
    /\ Validated
    /\ LastT.kind = "union"
    /\ LastT.args = <<BooleanT, StringT>>
    /\ last.in = Str(S_true)
    /\ last.r = Ok(Bool(TRUE))
    /\ Len(Direct(last.tr)) = 1

\* C8: the validate of a pipe calls the base's validate on the input; on Err
\* it returns that Err and does not call options.validate; on Ok(x) it calls
\* options.validate once, on x, and returns its Result.
C8_PipeAfterBase ==
    (Validated /\ IsPipe(LastT)) =>
        LET D == Direct(last.tr)
            nexts == SelectSeq(last.tr, LAMBDA e : e.fn = "next" /\ e.t = last.t)
        IN  /\ D # <<>>
            /\ D[1].fn = "validate" /\ D[1].t = LastT.args[1] /\ D[1].in = last.in
            /\ D[1].out.kind = "Err" => (last.r = D[1].out /\ nexts = <<>>)
            /\ D[1].out.kind = "Ok" =>
                  /\ Len(nexts) = 1
                  /\ nexts[1].in = D[1].out.value
                  /\ last.r = nexts[1].out

\* boolean.pipe(...) on "true": options.validate is given true, not "true"
C8_Witness ==
    /\ Validated
    /\ LastT.kind = "pipeTo"
    /\ LastT.args[1] = BooleanT
    /\ last.in = Str(S_true)
    /\ \E i \in 1..Len(last.tr) : last.tr[i].fn = "next" /\ last.tr[i].in = Bool(TRUE)
    /\ last.r.kind = "Ok"

\* the inputs and descriptors of the calls list, object and record make, in order
C9_Items ==
    CASE LastT.kind = "list" -> [i \in 1..Len(last.in.xs) |->
                                    [t |-> LastT.args[1], in |-> last.in.xs[i]]]
      [] LastT.kind = "record" -> [i \in 1..Len(last.in.xs) |->
                                    [t |-> LastT.args[1], in |-> last.in.xs[i]]]
      [] OTHER -> [i \in 1..Len(LastT.keys) |->
                      [t |-> LastT.args[i], in |-> Get(last.in, LastT.keys[i])]]

C10_OneLiveChild ==
    /\ childProcess \in {0, Len(children)}
    /\ \A c \in 1..Len(children) : children[c] # "cancelled" => c = childProcess

\* a step that spawns a child spawns one, tracks it, and leaves every earlier
\* child cancelled
C10_SpawnCancels ==
    Len(children') > Len(children) =>
        /\ Len(children') = Len(children) + 1
        /\ childProcess' = Len(children')
        /\ children'[childProcess'] = "running"
        /\ \A c \in 1..Len(children) : children'[c] = "cancelled"

\* C10: every child but the tracked one has been cancelled, the tracked child
\* is the last one spawned or null, and a step that spawns a child leaves
\* every earlier child cancelled and tracks the new one.
C10_AtMostOneChild == [] C10_OneLiveChild /\ [][C10_SpawnCancels]_vars

\* a rebuild spawned a child after dispose() had closed the watcher, and the
\* child before it was cancelled
C10_Witness ==
    /\ Len(children) >= 2
    /\ children[Len(children) - 1] = "cancelled"
    /\ childProcess = Len(children)
    /\ watcher = "closed"

====
